---- MODULE Spec2Model ----
(***************************************************************************)
(* Model of the etcd_imagedata_size health check                           *)
(* (roles/openshift_health_checker/openshift_checks/etcd_imagedata_size.py)*)
(* and of the get_var lookup it is built on.                               *)
(*                                                                         *)
(* Python values are modelled as follows.  A str is a TLA+ string.  A dict *)
(* is a function whose domain is the set of its keys, so that "key absent" *)
(* and "key present" are different states.  The values get_var walks       *)
(* through carry a type tag (DictV, ListV, StrV, IntV, BoolV), because get_var  *)
(* has to tell a dict from a value that cannot be indexed by a key.        *)
(* A call that can raise yields Return(v) or Raise(type, msg).             *)
(***************************************************************************)
EXTENDS Integers, Sequences, FiniteSets, TLC

VARIABLES
    task_vars,                  \* self.task_vars of the check
    pc,                         \* position of run(): start, config, loop, done, raised
    etcd_mountpath,             \* run(): the resolved mount record
    etcd_imagedata_size_limit,  \* run(): the size limit
    conf,                       \* run(): etcd_is_ssl, etcd_port, etcd_hosts, cert, key, ca_cert
    idx,                        \* run(): index of the next host of list(etcd_hosts)
    calls,                      \* the args of every execute_module("etcdkeysize", args) so far
    etcdkeysize,                \* run(): the result of the latest execute_module call
    ret,                        \* the report run() returned
    exc,                        \* the exception run() raised
    fn_in,                      \* arguments of a direct call of a helper
    fn_out                      \* its outcome

vars == <<task_vars, pc, etcd_mountpath, etcd_imagedata_size_limit, conf, idx,
          calls, etcdkeysize, ret, exc, fn_in, fn_out>>

runvars == <<task_vars, pc, etcd_mountpath, etcd_imagedata_size_limit, conf, idx,
             calls, etcdkeysize, ret, exc>>

----------------------------------------------------------------------------
(* Bounds of the model *)

MaxMounts == 3      \* longest ansible_mounts list handed to _get_etcd_mountpath directly
MaxSize == 3        \* size_total and size_available range over 0..MaxSize
MaxHosts == 2       \* longest etcd_hosts list
MaxKeys == 3        \* longest key path handed to get_var directly

----------------------------------------------------------------------------
(* Python values *)

None == [t |-> "None"]
DictV(d) == [t |-> "dict", v |-> d]
ListV(s) == [t |-> "list", v |-> s]
StrV(s) == [t |-> "str", v |-> s]
IntV(n) == [t |-> "int", v |-> n]
BoolV(b) == [t |-> "bool", v |-> b]

Return(v) == [raised |-> FALSE, value |-> v]
Raise(type, msg) == [raised |-> TRUE, type |-> type, msg |-> msg]

\* dict.get(key, default)
Get(d, key, default) == IF key \in DOMAIN d THEN d[key] ELSE default

\* the i-th character of a str
Char(s, i) == SubSeq(s, i, i)

\* The characters the model's strings are made of, in code point order.
CodePoints == "/abcdefghijklmnopqrstuvwxyz"

ord(c) == CHOOSE i \in 1..Len(CodePoints) : Char(CodePoints, i) = c

\* a < b for two str: lexicographic by code point, a proper prefix first
StrLess(a, b) ==
    \E k \in 0..Len(a) :
        /\ k <= Len(b)
        /\ SubSeq(a, 1, k) = SubSeq(b, 1, k)
        /\ \/ k = Len(a) /\ k < Len(b)
           \/ k < Len(a) /\ k < Len(b) /\ ord(Char(a, k + 1)) < ord(Char(b, k + 1))

\* sorted(S) for a collection S of distinct str
RECURSIVE sorted_descending(_)
sorted_descending(S) ==
    IF S = {} THEN <<>>
    ELSE LET m == CHOOSE x \in S : \A y \in S \ {x} : StrLess(y, x)
         IN  <<m>> \o sorted_descending(S \ {m})

RECURSIVE sorted(_)
sorted(S) ==
    IF S = {} THEN <<>>
    ELSE LET m == CHOOSE x \in S : \A y \in S \ {x} : StrLess(x, y)
         IN  <<m>> \o sorted(S \ {m})

\* sep.join(seq)
RECURSIVE join(_, _)
join(sep, seq) ==
    IF seq = <<>> THEN ""
    ELSE IF Len(seq) = 1 THEN seq[1]
    ELSE seq[1] \o sep \o join(sep, Tail(seq))

----------------------------------------------------------------------------
(* OpenShiftCheck.get_var: keys is the key path, kwargs may hold "default" *)

RECURSIVE walk(_, _)
walk(value, keys) ==
    IF keys = <<>> THEN Return(value)
    ELSE IF value.t # "dict" THEN Raise("TypeError", "")
    ELSE IF Head(keys) \notin DOMAIN value.v THEN Raise("KeyError", Head(keys))
    ELSE walk(value.v[Head(keys)], Tail(keys))

get_var_ignoring_default(tv, keys, kwargs) ==
    LET r == walk(tv, keys)
    IN  IF ~r.raised THEN r
        ELSE Raise("OpenShiftCheckException", join(".", keys))

get_var(tv, keys, kwargs) ==
    LET r == walk(tv, keys)
    IN  IF ~r.raised THEN r
        ELSE IF "default" \in DOMAIN kwargs THEN Return(kwargs["default"])
        ELSE Raise("OpenShiftCheckException", join(".", keys))

NoDefault == <<>>
Default(v) == "default" :> v

----------------------------------------------------------------------------
(* EtcdImageDataSize._get_etcd_mountpath(ansible_mounts) *)

valid_etcd_mount_paths_general_first == <<"/", "/var", "/var/lib", "/var/lib/etcd">>

valid_etcd_mount_paths == <<"/var/lib/etcd", "/var/lib", "/var", "/">>

\* {mnt.get("mount"): mnt for mnt in ansible_mounts}: a later entry replaces
\* an earlier one of the same path
mount_for_path(ansible_mounts) ==
    [p \in {ansible_mounts[i].mount : i \in DOMAIN ansible_mounts} |->
        LET last == CHOOSE i \in DOMAIN ansible_mounts :
                        /\ ansible_mounts[i].mount = p
                        /\ \A j \in DOMAIN ansible_mounts :
                              ansible_mounts[j].mount = p => j <= i
        IN  ansible_mounts[last]]

get_etcd_mountpath(ansible_mounts) ==
    LET mfp == mount_for_path(ansible_mounts)
        hits == {i \in DOMAIN valid_etcd_mount_paths :
                    valid_etcd_mount_paths[i] \in DOMAIN mfp}
    IN  IF hits # {}
        THEN LET first == CHOOSE i \in hits : \A j \in hits : i <= j
             IN  Return(mfp[valid_etcd_mount_paths[first]])
        ELSE LET joined == join(", ", sorted(DOMAIN mfp))
                 paths == IF joined # "" THEN joined ELSE "none"
             IN  Raise("OpenShiftCheckException",
                       "Unable to determine a valid etcd mountpath. Paths mounted: "
                           \o paths \o ".")

----------------------------------------------------------------------------
(* Direct calls of the helpers *)

Idle ==
    /\ task_vars = DictV(<<>>)
    /\ pc = "idle"
    /\ etcd_mountpath = None
    /\ etcd_imagedata_size_limit = None
    /\ conf = None
    /\ idx = 0
    /\ calls = <<>>
    /\ etcdkeysize = None
    /\ ret = None
    /\ exc = None

MountPaths == {"/var/lib/etcd", "/var/lib", "/var", "/", "/boot", "/home", "/var/log"}

\* two records of one path differ in their sizes
MountSizes == {<<2, 1>>, <<3, 0>>}

Mount(p, total, avail) == [mount |-> p, size_total |-> total, size_available |-> avail]

MountRecords == {Mount(p, s[1], s[2]) : p \in MountPaths, s \in MountSizes}

SeqsUpTo(S, n) == UNION {[1..k -> S] : k \in 0..n}

InitMount ==
    /\ Idle
    /\ fn_in \in SeqsUpTo(MountRecords, MaxMounts)
    /\ fn_out = None

CallGetEtcdMountpath ==
    /\ fn_out = None
    /\ fn_out' = get_etcd_mountpath(fn_in)
    /\ UNCHANGED <<fn_in, runvars>>

NextMount == CallGetEtcdMountpath

SpecMount == InitMount /\ [][NextMount]_vars

----------------------------------------------------------------------------
(* A direct call of get_var, on the task variables of the test fixture *)

FixtureTaskVars == DictV([foo |-> IntV(42), bar |-> DictV([baz |-> StrV("openshift")])])

KeyNames == {"foo", "bar", "baz", "notfound"}

InitGetVar ==
    /\ task_vars = FixtureTaskVars
    /\ pc = "idle"
    /\ etcd_mountpath = None
    /\ etcd_imagedata_size_limit = None
    /\ conf = None
    /\ idx = 0
    /\ calls = <<>>
    /\ etcdkeysize = None
    /\ ret = None
    /\ exc = None
    /\ fn_in \in [keys : SeqsUpTo(KeyNames, MaxKeys) \ {<<>>},
                  kwargs : {NoDefault, Default(StrV("fallback"))}]
    /\ fn_out = None

CallGetVar ==
    /\ fn_out = None
    /\ fn_out' = get_var(task_vars, fn_in.keys, fn_in.kwargs)
    /\ UNCHANGED <<fn_in, runvars>>

NextGetVar == CallGetVar

SpecGetVar == InitGetVar /\ [][NextGetVar]_vars

----------------------------------------------------------------------------
(* EtcdImageDataSize.run() *)

\* float(n), 0.5 * x and int(x) on exact rationals num/den: a double holds an
\* integer of magnitude up to 2^53 and its half exactly
float(n) == [num |-> n, den |-> 1]

half(x) == [num |-> x.num, den |-> 2 * x.den]

\* int(x) rounds toward zero
int(x) == IF x.num >= 0 THEN x.num \div x.den ELSE -((-x.num) \div x.den)

int_floor(x) == x.num \div x.den

\* int(0.5 * float(etcd_total_diskspace - etcd_avail_diskspace))
default_size_limit_floor(etcd_total_diskspace, etcd_avail_diskspace) ==
    int_floor(half(float(etcd_total_diskspace - etcd_avail_diskspace)))

default_size_limit(etcd_total_diskspace, etcd_avail_diskspace) ==
    int(half(float(etcd_total_diskspace - etcd_avail_diskspace)))

\* self.get_var("etcd_max_image_data_size_bytes", default=...)
size_limit_from_disk(tv, mountpath) ==
    IntV(default_size_limit(mountpath.size_total, mountpath.size_available))

size_limit(tv, mountpath) ==
    get_var(tv, <<"etcd_max_image_data_size_bytes">>,
            Default(IntV(default_size_limit(mountpath.size_total,
                                            mountpath.size_available)))).value

DefaultPort == 2379

get_etcd_is_ssl(tv) ==
    get_var(tv, <<"openshift", "master", "etcd_use_ssl">>, Default(BoolV(FALSE)))

get_etcd_port(tv) ==
    get_var(tv, <<"openshift", "master", "etcd_port">>, Default(IntV(DefaultPort)))

get_etcd_hosts(tv) ==
    get_var(tv, <<"openshift", "master", "etcd_hosts">>, NoDefault)

get_config_base_or_default(tv) ==
    get_var(tv, <<"openshift", "common", "config_base">>, Default(StrV("/etc/origin")))

get_config_base(tv) ==
    get_var(tv, <<"openshift", "common", "config_base">>, NoDefault)

get_cert(tv, config_base) ==
    get_var(tv, <<"etcd_client_cert">>,
            Default(StrV(config_base \o "/master/master.etcd-client.crt")))

get_key(tv, config_base) ==
    get_var(tv, <<"etcd_client_key">>,
            Default(StrV(config_base \o "/master/master.etcd-client.key")))

get_ca_cert(tv, config_base) ==
    get_var(tv, <<"etcd_client_ca_cert">>,
            Default(StrV(config_base \o "/master/master.etcd-ca.crt")))

\* the args of execute_module("etcdkeysize", args) for one host
module_args(limit, etcd_host, c) ==
    [size_limit_bytes |-> limit,
     paths |-> <<"/openshift.io/images", "/openshift.io/imagestreams">>,
     host |-> etcd_host,
     port |-> c.etcd_port,
     protocol |-> IF c.etcd_is_ssl THEN "https" ELSE "http",
     version_prefix |-> "/v2",
     allow_redirect |-> TRUE,
     ca_cert |-> c.ca_cert,
     cert |-> [cert |-> c.cert, key |-> c.key]]

\* truth value of a str-or-None
truthy_str(s) == s # None /\ s.v # ""

\* etcdkeysize.get("rc", 0) != 0 or etcdkeysize.get("failed")
retrieval_failed(result) ==
    \/ Get(result, "rc", 0) # 0
    \/ Get(result, "failed", FALSE)

\* etcdkeysize["size_limit_exceeded"]
size_limit_exceeded_never(result) == FALSE

size_limit_exceeded(result) == result["size_limit_exceeded"]

\* str(x) of a str-or-None, as format() renders it
str(x) == IF x = None THEN "None" ELSE x.v

\* the reason of a retrieval failure: msg, replaced by a non-empty module_stderr
failure_reason_msg_first(result) ==
    IF "msg" \in DOMAIN result THEN StrV(result["msg"])
    ELSE IF "module_stderr" \in DOMAIN result THEN StrV(result["module_stderr"])
    ELSE None

failure_reason(result) ==
    LET msg == IF "msg" \in DOMAIN result THEN StrV(result["msg"]) ELSE None
        stderr == IF "module_stderr" \in DOMAIN result
                  THEN StrV(result["module_stderr"]) ELSE None
    IN  IF truthy_str(stderr) THEN stderr ELSE msg

failure_report(etcd_host, result) ==
    [failed |-> TRUE, changed |-> FALSE,
     msg |-> "Failed to retrieve stats for etcd host \"" \o etcd_host \o "\": "
                 \o str(failure_reason(result))]

\* float(byte_size) / 10.0**9
to_gigabytes(byte_size) == [num |-> byte_size, den |-> 1000000000]

TwoDigits(n) == IF n < 10 THEN "0" \o ToString(n) ELSE ToString(n)

\* "{:.2f}".format(x): two decimals, rounded to the nearest hundredth
format_2f(x) ==
    LET a == IF x.num < 0 THEN -x.num ELSE x.num
        h == (200 * a + x.den) \div (2 * x.den)
    IN  (IF x.num < 0 THEN "-" ELSE "") \o ToString(h \div 100) \o "."
            \o TwoDigits(h % 100)

\* (the back quotes around "oadm prune images" are left out: a TLA+ string
\* cannot hold that character)
limit_report(etcd_host, limit) ==
    [failed |-> TRUE,
     msg |-> "The size of OpenShift image data stored in etcd host \""
                 \o etcd_host \o "\" exceeds the maximum recommended limit of "
                 \o format_2f(to_gigabytes(limit)) \o " GB. "
                 \o "Use the oadm prune images command to cleanup unused Docker images."]

ok_report_changed == [changed |-> TRUE]

ok_report == [changed |-> FALSE]

\* lines 15-22: the mountpoint and the size limit
ResolveMountpath ==
    /\ pc = "start"
    /\ LET mounts == get_var(task_vars, <<"ansible_mounts">>, NoDefault)
           mp == IF mounts.raised THEN mounts ELSE get_etcd_mountpath(mounts.value.v)
       IN  IF mp.raised
           THEN /\ pc' = "raised"
                /\ exc' = mp
                /\ UNCHANGED <<etcd_mountpath, etcd_imagedata_size_limit>>
           ELSE /\ pc' = "config"
                /\ etcd_mountpath' = mp.value
                /\ etcd_imagedata_size_limit' = size_limit(task_vars, mp.value)
                /\ exc' = exc
    /\ UNCHANGED <<task_vars, conf, idx, calls, etcdkeysize, ret, fn_in, fn_out>>

\* lines 24-32: transport and certificate configuration
GetConfig ==
    /\ pc = "config"
    /\ LET hosts == get_etcd_hosts(task_vars)
           base == get_config_base(task_vars)
       IN  IF hosts.raised
           THEN pc' = "raised" /\ exc' = hosts /\ UNCHANGED <<conf, idx>>
           ELSE IF base.raised
           THEN pc' = "raised" /\ exc' = base /\ UNCHANGED <<conf, idx>>
           ELSE /\ pc' = "loop"
                /\ conf' = [etcd_is_ssl |-> get_etcd_is_ssl(task_vars).value.v,
                            etcd_port |-> get_etcd_port(task_vars).value.v,
                            etcd_hosts |-> hosts.value.v,
                            cert |-> get_cert(task_vars, base.value.v).value.v,
                            key |-> get_key(task_vars, base.value.v).value.v,
                            ca_cert |-> get_ca_cert(task_vars, base.value.v).value.v]
                /\ idx' = 1
                /\ exc' = exc
    /\ UNCHANGED <<task_vars, etcd_mountpath, etcd_imagedata_size_limit, calls,
                   etcdkeysize, ret, fn_in, fn_out>>

\* what the etcdkeysize module can answer; module_stderr is captured only from
\* a module run that ended with rc # 0 or failed
ModuleResults ==
    {r \in {rc @@ failed @@ msg @@ stderr @@ ("size_limit_exceeded" :> sle) :
                rc \in {<<>>, "rc" :> 0, "rc" :> 1},
                failed \in {<<>>, "failed" :> FALSE, "failed" :> TRUE},
                msg \in {<<>>, "msg" :> "timed out"},
                stderr \in {<<>>, "module_stderr" :> "",
                            "module_stderr" :> "connection refused"},
                sle \in BOOLEAN} :
        "module_stderr" \in DOMAIN r =>
            \/ "rc" \in DOMAIN r /\ r["rc"] # 0
            \/ "failed" \in DOMAIN r /\ r["failed"]}

\* lines 34-66: one pass of the loop over list(etcd_hosts)
MeasureHost ==
    /\ pc = "loop"
    /\ idx <= Len(conf.etcd_hosts)
    /\ \E result \in ModuleResults :
          LET etcd_host == conf.etcd_hosts[idx]
          IN  /\ calls' = Append(calls, module_args(etcd_imagedata_size_limit.v,
                                                    etcd_host, conf))
              /\ etcdkeysize' = result
              /\ IF retrieval_failed(result)
                 THEN pc' = "done" /\ ret' = failure_report(etcd_host, result)
                                   /\ idx' = idx
                 ELSE IF size_limit_exceeded(result)
                 THEN pc' = "done"
                      /\ ret' = limit_report(etcd_host, etcd_imagedata_size_limit.v)
                      /\ idx' = idx
                 ELSE pc' = "loop" /\ ret' = ret /\ idx' = idx + 1
    /\ UNCHANGED <<task_vars, etcd_mountpath, etcd_imagedata_size_limit, conf, exc,
                   fn_in, fn_out>>

\* line 68: every host passed
ReturnOk ==
    /\ pc = "loop"
    /\ idx > Len(conf.etcd_hosts)
    /\ pc' = "done"
    /\ ret' = ok_report
    /\ UNCHANGED <<task_vars, etcd_mountpath, etcd_imagedata_size_limit, conf, idx,
                   calls, etcdkeysize, exc, fn_in, fn_out>>

\* optional entry of a dict
Opt(key, S) == {<<>>} \cup {key :> v : v \in S}

Sizes == 0..MaxSize

\* ansible_mounts of a run: no mount, no candidate mount, or "/" and "/var"
RunMountLists ==
    {<<>>, <<Mount("/home", MaxSize, 0)>>}
        \cup {<<Mount("/", MaxSize + 1, 0), Mount("/var", t, a)>> : t \in Sizes, a \in Sizes}

Hosts == {"etcd1", "etcd2"}

MasterDicts ==
    {hosts @@ transport :
        hosts \in Opt("etcd_hosts", {ListV(h) : h \in SeqsUpTo(Hosts, MaxHosts)}),
        transport \in {<<>>,
                       ("etcd_use_ssl" :> BoolV(TRUE)) @@ ("etcd_port" :> IntV(4001)),
                       "etcd_use_ssl" :> BoolV(FALSE)}}

CommonDicts == {<<>>, "config_base" :> StrV("/etc/origin")}

OpenshiftDicts ==
    {master @@ common :
        master \in Opt("master", {DictV(m) : m \in MasterDicts}),
        common \in Opt("common", {DictV(c) : c \in CommonDicts})}

CertOverrides ==
    {<<>>,
     ("etcd_client_cert" :> StrV("/pki/client.crt"))
         @@ ("etcd_client_key" :> StrV("/pki/client.key"))
         @@ ("etcd_client_ca_cert" :> StrV("/pki/ca.crt"))}

TaskVars ==
    {DictV(mounts @@ override @@ openshift @@ certs) :
        mounts \in Opt("ansible_mounts", {ListV(m) : m \in RunMountLists}),
        override \in Opt("etcd_max_image_data_size_bytes", {IntV(7)}),
        openshift \in Opt("openshift", {DictV(o) : o \in OpenshiftDicts}),
        certs \in CertOverrides}

Init ==
    /\ task_vars \in TaskVars
    /\ pc = "start"
    /\ etcd_mountpath = None
    /\ etcd_imagedata_size_limit = None
    /\ conf = None
    /\ idx = 0
    /\ calls = <<>>
    /\ etcdkeysize = None
    /\ ret = None
    /\ exc = None
    /\ fn_in = None
    /\ fn_out = None

Next == ResolveMountpath \/ GetConfig \/ MeasureHost \/ ReturnOk

Spec == Init /\ [][Next]_vars

----------------------------------------------------------------------------
(* Properties of _get_etcd_mountpath *)

CandidatePaths == {"/var/lib/etcd", "/var/lib", "/var", "/"}

\* rank of a candidate path in the priority order, 1 the highest priority
Priority(p) ==
    CASE p = "/var/lib/etcd" -> 1
      [] p = "/var/lib" -> 2
      [] p = "/var" -> 3
      [] p = "/" -> 4

PathsOf(mounts) == {mounts[i].mount : i \in DOMAIN mounts}

Reverse(s) == [i \in 1..Len(s) |-> s[Len(s) + 1 - i]]

\* C2: when the mount list holds a candidate path, _get_etcd_mountpath returns
\* a record of the list whose path is the highest-priority candidate present,
\* and the same path is chosen for the list in reverse order.
C2_HighestPriorityMount ==
    (fn_out # None /\ PathsOf(fn_in) \cap CandidatePaths # {}) =>
        /\ ~fn_out.raised
        /\ \E i \in DOMAIN fn_in : fn_in[i] = fn_out.value
        /\ fn_out.value.mount \in CandidatePaths
        /\ \A p \in PathsOf(fn_in) \cap CandidatePaths :
              Priority(fn_out.value.mount) <= Priority(p)
        /\ LET r == get_etcd_mountpath(Reverse(fn_in))
           IN  ~r.raised /\ r.value.mount = fn_out.value.mount

\* a lower-priority candidate and an unrelated path come first in the list,
\* and the higher-priority candidate is returned
C2_Witness ==
    /\ fn_out # None
    /\ Len(fn_in) = 3
    /\ fn_in[1].mount = "/"
    /\ fn_in[2].mount = "/home"
    /\ fn_in[3].mount = "/var/lib"
    /\ ~fn_out.raised
    /\ fn_out.value = fn_in[3]

\* the paths of the model that are no candidates, in alphabetical order
OtherPathsSorted == <<"/boot", "/home", "/var/log">>

IsMounted(p) == p \in PathsOf(fn_in)

\* C6: when the mount list holds no candidate path, _get_etcd_mountpath raises
\* OpenShiftCheckException, and the message lists each path of the list once,
\* in alphabetical order and separated by ", ", or "none" for the empty list.
C6_NoMountpathError ==
    (fn_out # None /\ PathsOf(fn_in) \cap CandidatePaths = {}) =>
        /\ fn_out.raised
        /\ fn_out.type = "OpenShiftCheckException"
        /\ LET listed == SelectSeq(OtherPathsSorted, IsMounted)
               text == IF fn_in = <<>> THEN "none" ELSE join(", ", listed)
           IN  fn_out.msg =
                   "Unable to determine a valid etcd mountpath. Paths mounted: "
                       \o text \o "."

\* three mounts, two of one path, given out of order
C6_Witness ==
    /\ fn_out # None
    /\ Len(fn_in) = 3
    /\ fn_in[1].mount = "/var/log"
    /\ fn_in[2].mount = "/boot"
    /\ fn_in[3].mount = "/var/log"
    /\ fn_out.raised
    /\ fn_out.msg =
           "Unable to determine a valid etcd mountpath. Paths mounted: /boot, /var/log."

----------------------------------------------------------------------------
(* Properties of get_var *)

\* the values the key path leads to: one value, or none when a key of the path
\* is missing or the path runs through a value that is no dict
RECURSIVE Nested(_, _)
Nested(value, keys) ==
    IF keys = <<>> THEN {value}
    ELSE IF value.t = "dict" /\ Head(keys) \in DOMAIN value.v
         THEN Nested(value.v[Head(keys)], Tail(keys))
         ELSE {}

\* C9: get_var returns the nested value of a key path that is present; for a
\* key path absent at any level it returns the given default, and raises
\* OpenShiftCheckException when no default is given.
C9_GetVar ==
    fn_out # None =>
        LET found == Nested(task_vars, fn_in.keys)
        IN  IF found # {} THEN ~fn_out.raised /\ fn_out.value \in found
            ELSE IF "default" \in DOMAIN fn_in.kwargs
            THEN fn_out = Return(fn_in.kwargs["default"])
            ELSE fn_out.raised /\ fn_out.type = "OpenShiftCheckException"

\* a path whose second key is missing, looked up with a default
C9_Witness ==
    /\ fn_out # None
    /\ fn_in.keys = <<"bar", "notfound">>
    /\ "default" \in DOMAIN fn_in.kwargs
    /\ fn_out = Return(StrV("fallback"))

----------------------------------------------------------------------------
(* Properties of run() *)

HostsMeasured == [i \in 1..Len(calls) |-> calls[i].host]

IsPrefix(a, b) == Len(a) <= Len(b) /\ a = SubSeq(b, 1, Len(a))

Contains(s, sub) ==
    \E i \in 1..(Len(s) - Len(sub) + 1) : SubSeq(s, i, i + Len(sub) - 1) = sub

Quoted(s) == "\"" \o s \o "\""

\* a result that reports a failure: rc # 0 or the failed flag
ResultFailed(r) ==
    \/ "rc" \in DOMAIN r /\ r["rc"] # 0
    \/ "failed" \in DOMAIN r /\ r["failed"] = TRUE

ResultExceeded(r) == r["size_limit_exceeded"] = TRUE

LastBad == calls # <<>> /\ (ResultFailed(etcdkeysize) \/ ResultExceeded(etcdkeysize))

Returned == pc = "done"

\* C1: the hosts measured are a prefix of the host list, one call each; a
\* further host is measured only after a result that neither failed nor
\* exceeded the limit; a result that failed or exceeded ends the run with a
\* failed report naming its host, and nothing is measured after the return.
C1_FirstBadHostReported ==
    /\ pc \in {"loop", "done"} => IsPrefix(HostsMeasured, conf.etcd_hosts)
    /\ pc = "loop" => Len(calls) = idx - 1 /\ ~LastBad
    /\ LastBad =>
          /\ Returned
          /\ "failed" \in DOMAIN ret /\ ret["failed"] = TRUE
          /\ Contains(ret["msg"], Quoted(conf.etcd_hosts[Len(calls)]))
    /\ Returned => ~ENABLED MeasureHost

\* the first of two hosts exceeds the limit: it is reported, the second is
\* never measured
C1_Witness ==
    /\ Returned
    /\ conf.etcd_hosts = <<"etcd2", "etcd1">>
    /\ Len(calls) = 1
    /\ ~ResultFailed(etcdkeysize) /\ ResultExceeded(etcdkeysize)
    /\ Contains(ret["msg"], "\"etcd2\"")

\* C3: every report carries changed = false; failed (true) and msg are
\* present exactly on the measurement-failure and limit-exceeded paths.
C3_ReportShape ==
    Returned =>
        /\ "changed" \in DOMAIN ret /\ ret["changed"] = FALSE
        /\ "failed" \in DOMAIN ret <=> LastBad
        /\ "failed" \in DOMAIN ret => ret["failed"] = TRUE
        /\ "msg" \in DOMAIN ret <=> LastBad

OverrideGiven == "etcd_max_image_data_size_bytes" \in DOMAIN task_vars.v

UsedSpace == etcd_mountpath.size_total - etcd_mountpath.size_available

\* C4 as claimed: without an override every request carries
\* floor(0.5 * (size_total - size_available)) of the resolved mount.
C4_FloorLimit ==
    (calls # <<>> /\ ~OverrideGiven) =>
        \A i \in DOMAIN calls : calls[i].size_limit_bytes = UsedSpace \div 2

\* C4 as amended: without an override every request carries
\* 0.5 * (size_total - size_available) rounded toward zero, which is the
\* floor whenever size_total >= size_available.
C4_TruncatedLimit ==
    (calls # <<>> /\ ~OverrideGiven) =>
        \A i \in DOMAIN calls :
            LET l == calls[i].size_limit_bytes
            IN  /\ UsedSpace >= 0 => l = UsedSpace \div 2
                /\ UsedSpace < 0 => l = -((-UsedSpace) \div 2)

\* "/var" with more available than total space, an odd difference
C4_Witness ==
    /\ calls # <<>>
    /\ ~OverrideGiven
    /\ etcd_mountpath.mount = "/var"
    /\ etcd_mountpath.size_total = 0
    /\ etcd_mountpath.size_available = 3
    /\ calls[1].size_limit_bytes = -1

\* C5: every request of a run carries the same size_limit_bytes, and with the
\* override configured that value is the override.
C5_OneSizeLimit ==
    /\ \A i, j \in DOMAIN calls : calls[i].size_limit_bytes = calls[j].size_limit_bytes
    /\ OverrideGiven =>
          \A i \in DOMAIN calls :
              calls[i].size_limit_bytes = task_vars.v["etcd_max_image_data_size_bytes"].v

\* two hosts measured with the override, on a mount whose used space would
\* give another limit
C5_Witness ==
    /\ Len(calls) = 2
    /\ OverrideGiven
    /\ default_size_limit(etcd_mountpath.size_total, etcd_mountpath.size_available) = 1
    /\ calls[1].size_limit_bytes = 7
    /\ calls[2].size_limit_bytes = 7

\* C7: a run that returns without a failed or over-limit result has measured
\* each host of etcd_hosts once, in order, and returns changed = false and no
\* failed; with no host it returns that report without a measurement.
C7_AllPass ==
    (Returned /\ ~LastBad) =>
        /\ HostsMeasured = conf.etcd_hosts
        /\ DOMAIN ret = {"changed"}
        /\ ret["changed"] = FALSE

\* two hosts, both passing
C7_Witness ==
    /\ Returned
    /\ conf.etcd_hosts = <<"etcd2", "etcd1">>
    /\ HostsMeasured = <<"etcd2", "etcd1">>
    /\ ~LastBad
    /\ ret = [changed |-> FALSE]

\* the reason the claim names: module_stderr when present and non-empty,
\* msg otherwise (None when msg is absent)
ClaimedReason(r) ==
    IF "module_stderr" \in DOMAIN r /\ r["module_stderr"] # "" THEN r["module_stderr"]
    ELSE IF "msg" \in DOMAIN r THEN r["msg"]
    ELSE "None"

\* C8: a result with rc # 0 or the failed flag ends the run with the
\* retrieval-failure report, naming the host and the reason, also when the
\* result has size_limit_exceeded.
C8_FailureReason ==
    (calls # <<>> /\ ResultFailed(etcdkeysize)) =>
        /\ Returned
        /\ ret["failed"] = TRUE
        /\ ret["msg"] = "Failed to retrieve stats for etcd host "
                            \o Quoted(calls[Len(calls)].host) \o ": "
                            \o ClaimedReason(etcdkeysize)

\* rc = 1 with msg, module_stderr and size_limit_exceeded
C8_Witness ==
    /\ Returned
    /\ calls # <<>>
    /\ etcdkeysize = [rc |-> 1, msg |-> "timed out",
                      module_stderr |-> "connection refused",
                      size_limit_exceeded |-> TRUE]
    /\ ret["msg"] = "Failed to retrieve stats for etcd host \"etcd1\": connection refused"

HasPath(value, keys) == Nested(value, keys) # {}

\* the inputs that end a run with a fatal error
FatalInput ==
    \/ ~HasPath(task_vars, <<"ansible_mounts">>)
    \/ PathsOf(task_vars.v["ansible_mounts"].v) \cap CandidatePaths = {}
    \/ ~HasPath(task_vars, <<"openshift", "master", "etcd_hosts">>)
    \/ ~HasPath(task_vars, <<"openshift", "common", "config_base">>)

\* C10: a run on an input with no candidate mount, or without ansible_mounts,
\* etcd_hosts or config_base, never measures and never returns a report; it
\* ends raising OpenShiftCheckException; and whenever a measurement has been
\* made, the mountpoint, the limit and the configuration were all in place.
C10_LookupsBeforeMeasuring ==
    /\ FatalInput => calls = <<>> /\ ret = None /\ pc \in {"start", "config", "raised"}
    /\ pc = "raised" =>
          /\ FatalInput
          /\ exc.type = "OpenShiftCheckException"
          /\ calls = <<>> /\ ret = None
          /\ ~ENABLED Next
    /\ calls # <<>> =>
          etcd_mountpath # None /\ etcd_imagedata_size_limit # None /\ conf # None

\* config_base is missing while hosts, the size limit override and the three
\* certificate overrides are configured
C10_Witness ==
    /\ pc = "raised"
    /\ exc.msg = "openshift.common.config_base"
    /\ OverrideGiven
    /\ {"etcd_client_cert", "etcd_client_key", "etcd_client_ca_cert"} \subseteq DOMAIN task_vars.v
    /\ HasPath(task_vars, <<"openshift", "master", "etcd_hosts">>)
    /\ task_vars.v["openshift"].v["master"].v["etcd_hosts"].v # <<>>
    /\ calls = <<>>

====
